---- MODULE Spec2Model ----
(***************************************************************************)
(* Inventory management system (src/app.py): the product variants          *)
(* Electronics, Grocery and Clothing, the Inventory collection that owns   *)
(* them, and the JSON save/load codec.                                     *)
(*                                                                         *)
(* Spec        : the live inventory driven by the operations of class      *)
(*               Inventory, with load_from_file reading record sets that   *)
(*               come from outside (well-formed and malformed).            *)
(* SpecPersist : an inventory is built, changed by sales and restocks,     *)
(*               queried, saved with save_to_file, and the written file is *)
(*               read back with load_from_file, into the same inventory or *)
(*               into a newly constructed one.                             *)
(***************************************************************************)
EXTENDS Integers, Sequences, FiniteSets, TLC

VARIABLES
    products,   \* Inventory._products: the dict, as its entries in insertion order
    file,       \* the content of the file save_to_file writes and load_from_file reads
    today,      \* datetime.now().date()
    call,       \* the operation called last and its arguments
    raised,     \* the exception that call raised to its caller (kind "none": it returned)
    returned    \* the value that call returned

vars == <<products, file, today, call, raised, returned>>

---------------------------------------------------------------------------
(* Bounds of the model *)

\* largest stock a product is constructed with
MaxQty == 1
\* largest quantity passed to sell_product / restock_product (the least is -1)
MaxAmt == 2
\* the stock counter is explored within -1..MaxStock
MaxStock == 2

---------------------------------------------------------------------------
(* Text: a str is the sequence of its characters *)

DigitChars == <<"0", "1", "2", "3", "4", "5", "6", "7", "8", "9">>

IsDigit(c) == \E i \in 1..10 : DigitChars[i] = c

DigitOf(c) == (CHOOSE i \in 1..10 : DigitChars[i] = c) - 1

AllDigits(s) == \A i \in 1..Len(s) : IsDigit(s[i])

\* int(s) for a string of decimal digits
RECURSIVE NumVal(_)
NumVal(s) ==
    IF s = <<>> THEN 0
    ELSE NumVal(SubSeq(s, 1, Len(s) - 1)) * 10 + DigitOf(s[Len(s)])

\* the decimal digits of n >= 0, without padding
RECURSIVE Decimal(_)
Decimal(n) ==
    IF n < 10 THEN <<DigitChars[n + 1]>>
    ELSE Decimal(n \div 10) \o <<DigitChars[(n % 10) + 1]>>

\* s zero-filled on the left to width w
RECURSIVE ZeroPad(_, _)
ZeroPad(s, w) == IF Len(s) >= w THEN s ELSE ZeroPad(<<"0">> \o s, w)

\* the parts of s between the separators sep
RECURSIVE Split(_, _)
Split(s, sep) ==
    IF \A i \in 1..Len(s) : s[i] # sep THEN <<s>>
    ELSE LET k == CHOOSE i \in 1..Len(s) :
                      s[i] = sep /\ \A j \in 1..(i - 1) : s[j] # sep
         IN  <<SubSeq(s, 1, k - 1)>> \o Split(SubSeq(s, k + 1, Len(s)), sep)

UpperChars == <<"A", "B", "C", "D", "E", "F", "G", "H", "I", "J", "K", "L", "M",
                "N", "O", "P", "Q", "R", "S", "T", "U", "V", "W", "X", "Y", "Z">>

LowerChars == <<"a", "b", "c", "d", "e", "f", "g", "h", "i", "j", "k", "l", "m",
                "n", "o", "p", "q", "r", "s", "t", "u", "v", "w", "x", "y", "z">>

\* str.lower() of one character
LowerChar(c) ==
    IF \E i \in 1..26 : UpperChars[i] = c
    THEN LowerChars[CHOOSE i \in 1..26 : UpperChars[i] = c]
    ELSE c

\* s.lower()
lower(s) == [i \in 1..Len(s) |-> LowerChar(s[i])]

\* sub in s, for two str
Contains(sub, s) ==
    \E i \in 0..(Len(s) - Len(sub)) : SubSeq(s, i + 1, i + Len(sub)) = sub

---------------------------------------------------------------------------
(* Calendar dates: datetime.date as [y, m, d] *)

IsLeap(y) == (y % 4 = 0 /\ y % 100 # 0) \/ y % 400 = 0

DaysInMonth(y, m) ==
    IF m = 2 THEN (IF IsLeap(y) THEN 29 ELSE 28)
    ELSE IF m \in {4, 6, 9, 11} THEN 30 ELSE 31

\* date.__gt__
DateGT(a, b) ==
    \/ a.y > b.y
    \/ a.y = b.y /\ a.m > b.m
    \/ a.y = b.y /\ a.m = b.m /\ a.d > b.d

\* datetime.strptime(s, "%Y-%m-%d").date(): %Y is exactly four digits, %m and
\* %d are one or two digits; the date must exist. ok = FALSE: ValueError.
strptime(s) ==
    LET parts == Split(s, "-") IN
    IF /\ Len(parts) = 3
       /\ \A i \in 1..3 : AllDigits(parts[i])
       /\ Len(parts[1]) = 4
       /\ Len(parts[2]) \in {1, 2}
       /\ Len(parts[3]) \in {1, 2}
    THEN LET y == NumVal(parts[1])
             m == NumVal(parts[2])
             d == NumVal(parts[3])
         IN  IF y >= 1 /\ m \in 1..12 /\ d >= 1 /\ d <= DaysInMonth(y, m)
             THEN [ok |-> TRUE, date |-> [y |-> y, m |-> m, d |-> d]]
             ELSE [ok |-> FALSE]
    ELSE [ok |-> FALSE]

\* date.strftime("%Y-%m-%d"): %m and %d are zero-filled to two digits; %Y is
\* what the C library's strftime writes: zero-filled to four digits on some
\* platforms (padYear), the bare decimal year on others (glibc).
strftime(date, padYear) ==
    (IF padYear THEN ZeroPad(Decimal(date.y), 4) ELSE Decimal(date.y))
        \o <<"-">> \o ZeroPad(Decimal(date.m), 2)
        \o <<"-">> \o ZeroPad(Decimal(date.d), 2)

---------------------------------------------------------------------------
(* Exceptions *)

NoError == [kind |-> "none"]

DuplicateProductIDError == [kind |-> "DuplicateProductIDError"]

InsufficientStockError(product_id, requested, available) ==
    [kind |-> "InsufficientStockError", product_id |-> product_id,
     requested |-> requested, available |-> available]

\* faulty variant: the exception caught is raised again as it is
InvalidProductDataError_reraise(e) == e

\* raise InvalidProductDataError() from e: the cause is kept as __cause__ only
InvalidProductDataError(e) == [kind |-> "InvalidProductDataError", cause |-> e.kind]

\* ValueError(f"Product with ID {product_id} not found.")
NotFoundError(product_id) == [kind |-> "ValueError", product_id |-> product_id]

\* raised by the runtime: a missing dict key, a date string strptime rejects,
\* a file that cannot be opened or decoded
KeyError == [kind |-> "KeyError"]
DateValueError == [kind |-> "ValueError"]
FileError == [kind |-> "OSError"]

None == "None"

---------------------------------------------------------------------------
(* Product and its subclasses; field "type" is the object's class *)

Electronics(product_id, name, price, quantity_in_stock, warranty_years, brand) ==
    [type |-> "Electronics", product_id |-> product_id, name |-> name,
     price |-> price, quantity_in_stock |-> quantity_in_stock,
     warranty_years |-> warranty_years, brand |-> brand]

\* the constructor parses expiry_date; it raises ValueError when strptime does
\* (callers test strptime(expiry_date).ok first)
Grocery(product_id, name, price, quantity_in_stock, expiry_date) ==
    [type |-> "Grocery", product_id |-> product_id, name |-> name,
     price |-> price, quantity_in_stock |-> quantity_in_stock,
     expiry_date |-> strptime(expiry_date).date]

Clothing(product_id, name, price, quantity_in_stock, size, material) ==
    [type |-> "Clothing", product_id |-> product_id, name |-> name,
     price |-> price, quantity_in_stock |-> quantity_in_stock,
     size |-> size, material |-> material]

\* faulty variant: the quantity is left out of the value
get_total_value_price(p) == p.price

get_total_value(p) == p.price * p.quantity_in_stock

Electronics_restock(p, amount) ==
    [p EXCEPT !.quantity_in_stock = p.quantity_in_stock + amount]

Grocery_restock(p, amount) ==
    [p EXCEPT !.quantity_in_stock = p.quantity_in_stock + amount]

\* faulty variant: a negative amount is ignored
Clothing_restock_positive(p, amount) ==
    IF amount < 0 THEN p
    ELSE [p EXCEPT !.quantity_in_stock = p.quantity_in_stock + amount]

Clothing_restock(p, amount) ==
    [p EXCEPT !.quantity_in_stock = p.quantity_in_stock + amount]

\* p.restock(amount), dispatched on the class of p
restock(p, amount) ==
    CASE p.type = "Electronics" -> Electronics_restock(p, amount)
      [] p.type = "Grocery" -> Grocery_restock(p, amount)
      [] p.type = "Clothing" -> Clothing_restock(p, amount)

\* faulty variant: the stock is not tested before it is decreased
Electronics_sell_unchecked(p, quantity) ==
    [product |-> [p EXCEPT !.quantity_in_stock = p.quantity_in_stock - quantity],
     raised |-> [kind |-> "none"]]

\* sell returns the product after the call and the exception raised
Electronics_sell(p, quantity) ==
    IF quantity > p.quantity_in_stock
    THEN [product |-> p,
          raised |-> InsufficientStockError(p.product_id, quantity, p.quantity_in_stock)]
    ELSE [product |-> [p EXCEPT !.quantity_in_stock = p.quantity_in_stock - quantity],
          raised |-> NoError]

\* faulty variant: selling the whole stock is refused (>= for >)
Grocery_sell_strict(p, quantity) ==
    IF quantity >= p.quantity_in_stock
    THEN [product |-> p,
          raised |-> InsufficientStockError(p.product_id, quantity, p.quantity_in_stock)]
    ELSE [product |-> [p EXCEPT !.quantity_in_stock = p.quantity_in_stock - quantity],
          raised |-> NoError]

Grocery_sell(p, quantity) ==
    IF quantity > p.quantity_in_stock
    THEN [product |-> p,
          raised |-> InsufficientStockError(p.product_id, quantity, p.quantity_in_stock)]
    ELSE [product |-> [p EXCEPT !.quantity_in_stock = p.quantity_in_stock - quantity],
          raised |-> NoError]

Clothing_sell(p, quantity) ==
    IF quantity > p.quantity_in_stock
    THEN [product |-> p,
          raised |-> InsufficientStockError(p.product_id, quantity, p.quantity_in_stock)]
    ELSE [product |-> [p EXCEPT !.quantity_in_stock = p.quantity_in_stock - quantity],
          raised |-> NoError]

\* p.sell(quantity), dispatched on the class of p
sell(p, quantity) ==
    CASE p.type = "Electronics" -> Electronics_sell(p, quantity)
      [] p.type = "Grocery" -> Grocery_sell(p, quantity)
      [] p.type = "Clothing" -> Clothing_sell(p, quantity)

\* faulty variant: a product is expired on its expiry date already (>= for >)
is_expired_on_the_day(p, now) == ~DateGT(p.expiry_date, now)

\* Grocery.is_expired with datetime.now().date() = now
is_expired(p, now) == DateGT(now, p.expiry_date)

---------------------------------------------------------------------------
(* The dict Inventory._products: entries [key, value] in insertion order *)

Keys(d) == {d[i].key : i \in 1..Len(d)}

HasKey(d, k) == \E i \in 1..Len(d) : d[i].key = k

IndexOf(d, k) == CHOOSE i \in 1..Len(d) : d[i].key = k

\* d[k]
Get(d, k) == d[IndexOf(d, k)].value

\* faulty variant: an entry that is assigned to moves to the end of the dict
Put_reinsert(d, k, v) ==
    LET rest == SelectSeq(d, LAMBDA entry : entry.key # k)
    IN  Append(rest, [key |-> k, value |-> v])

\* d[k] = v
Put(d, k, v) ==
    IF HasKey(d, k) THEN [d EXCEPT ![IndexOf(d, k)].value = v]
    ELSE Append(d, [key |-> k, value |-> v])

\* del d[k]
Del(d, k) ==
    LET i == IndexOf(d, k) IN SubSeq(d, 1, i - 1) \o SubSeq(d, i + 1, Len(d))

\* list(d.values())
Values(d) == [i \in 1..Len(d) |-> d[i].value]

---------------------------------------------------------------------------
(* class Inventory: each method maps the dict and its arguments to the dict  *)
(* after the call, the exception raised and the value returned               *)

Outcome(d, e, r) == [products |-> d, raised |-> e, returned |-> r]

\* faulty variant: the product is stored under its class name
add_product_keyed_by_type(d, product) ==
    IF HasKey(d, product.product_id)
    THEN Outcome(d, DuplicateProductIDError, None)
    ELSE Outcome(Put(d, product.type, product), NoError, None)

\* faulty variant: a used id is not refused, the stored product is replaced
add_product_overwrite(d, product) ==
    Outcome(Put(d, product.product_id, product), NoError, None)

add_product(d, product) ==
    IF HasKey(d, product.product_id)
    THEN Outcome(d, DuplicateProductIDError, None)
    ELSE Outcome(Put(d, product.product_id, product), NoError, None)

\* faulty variant: an absent id is passed over in silence
remove_product_silent(d, product_id) ==
    IF ~HasKey(d, product_id)
    THEN Outcome(d, NoError, None)
    ELSE Outcome(Del(d, product_id), NoError, None)

remove_product(d, product_id) ==
    IF ~HasKey(d, product_id)
    THEN Outcome(d, NotFoundError(product_id), None)
    ELSE Outcome(Del(d, product_id), NoError, None)

\* the product object is mutated in place; the dict keeps referring to it
sell_product(d, product_id, quantity) ==
    IF ~HasKey(d, product_id)
    THEN Outcome(d, NotFoundError(product_id), None)
    ELSE LET r == sell(Get(d, product_id), quantity)
         IN  Outcome(Put(d, product_id, r.product), r.raised, None)

restock_product(d, product_id, quantity) ==
    IF ~HasKey(d, product_id)
    THEN Outcome(d, NotFoundError(product_id), None)
    ELSE Outcome(Put(d, product_id, restock(Get(d, product_id), quantity)), NoError, None)

\* faulty variant: the name searched for is not lowered
search_by_name_exact(d, name) ==
    LET Match(p) == Contains(name, lower(p.name))
    IN  Outcome(d, NoError, SelectSeq(Values(d), Match))

search_by_name(d, name) ==
    LET Match(p) == Contains(lower(name), lower(p.name))
    IN  Outcome(d, NoError, SelectSeq(Values(d), Match))

\* isinstance(p, product_type); every product is an instance of Product
isinstance(p, product_type) == product_type = "Product" \/ p.type = product_type

search_by_type(d, product_type) ==
    LET Match(p) == isinstance(p, product_type)
    IN  Outcome(d, NoError, SelectSeq(Values(d), Match))

\* faulty variant: the products are taken out of the dict as they are listed
list_all_products_drain(d) == Outcome(<<>>, NoError, Values(d))

list_all_products(d) == Outcome(d, NoError, Values(d))

RECURSIVE SumValues(_)
SumValues(ps) ==
    IF ps = <<>> THEN 0
    ELSE get_total_value(Head(ps)) + SumValues(Tail(ps))

total_inventory_value(d) == Outcome(d, NoError, SumValues(Values(d)))

\* first loop: the ids of the expired Grocery products, in dict order
RECURSIVE ExpiredIds(_, _)
ExpiredIds(ps, now) ==
    IF ps = <<>> THEN <<>>
    ELSE (IF Head(ps).type = "Grocery" /\ is_expired(Head(ps), now)
          THEN <<Head(ps).product_id>> ELSE <<>>) \o ExpiredIds(Tail(ps), now)

\* faulty variant: only the first expired product is removed
RemoveAll_first(d, pids) ==
    IF pids = <<>> THEN Outcome(d, NoError, None)
    ELSE remove_product(d, Head(pids))

\* second loop: remove_product(pid) for each; an exception ends the loop
RECURSIVE RemoveAll(_, _)
RemoveAll(d, pids) ==
    IF pids = <<>> THEN Outcome(d, NoError, None)
    ELSE LET r == remove_product(d, Head(pids))
         IN  IF r.raised # NoError THEN r ELSE RemoveAll(r.products, Tail(pids))

remove_expired_products(d, now) ==
    LET expired == ExpiredIds(Values(d), now)
        r == RemoveAll(d, expired)
    IN  IF r.raised # NoError THEN r ELSE Outcome(r.products, NoError, expired)

---------------------------------------------------------------------------
(* Save and load. A file is [exists, data]: data is the decoded JSON array, *)
(* one dict per record. json.dump / json.load carry str and int values      *)
(* through unchanged; the one conversion is expiry_date, date <-> str.      *)

NoFile == [exists |-> FALSE]

FileOf(data) == [exists |-> TRUE, data |-> data]

\* product_data of one product, by isinstance
product_data(p, padYear) ==
    CASE p.type = "Electronics" ->
            [type |-> "Electronics", product_id |-> p.product_id, name |-> p.name,
             price |-> p.price, quantity_in_stock |-> p.quantity_in_stock,
             warranty_years |-> p.warranty_years, brand |-> p.brand]
      [] p.type = "Grocery" ->
            [type |-> "Grocery", product_id |-> p.product_id, name |-> p.name,
             price |-> p.price, quantity_in_stock |-> p.quantity_in_stock,
             expiry_date |-> strftime(p.expiry_date, padYear)]
      [] p.type = "Clothing" ->
            [type |-> "Clothing", product_id |-> p.product_id, name |-> p.name,
             price |-> p.price, quantity_in_stock |-> p.quantity_in_stock,
             size |-> p.size, material |-> p.material]

\* faulty variant: the last product of the dict is not written
save_to_file_drop_last(d, padYear) ==
    [i \in 1..(Len(d) - 1) |-> product_data(d[i].value, padYear)]

\* the list data that save_to_file builds and writes
save_to_file(d, padYear) ==
    [i \in 1..Len(d) |-> product_data(d[i].value, padYear)]

BaseFields == {"product_id", "name", "price", "quantity_in_stock"}

\* item["f"] raises KeyError for an absent f
HasFields(item, fs) == fs \subseteq DOMAIN item

\* the body of the for loop up to add_product: the product built from one
\* record, or the exception raised while building it
construct(item) ==
    IF ~HasFields(item, {"type"}) THEN [raised |-> KeyError]
    ELSE IF item.type = "Electronics" THEN
        IF HasFields(item, BaseFields \cup {"warranty_years", "brand"})
        THEN [raised |-> NoError,
              product |-> Electronics(item.product_id, item.name, item.price,
                                      item.quantity_in_stock, item.warranty_years,
                                      item.brand)]
        ELSE [raised |-> KeyError]
    ELSE IF item.type = "Grocery" THEN
        IF ~HasFields(item, BaseFields \cup {"expiry_date"}) THEN [raised |-> KeyError]
        ELSE IF ~strptime(item.expiry_date).ok THEN [raised |-> DateValueError]
        ELSE [raised |-> NoError,
              product |-> Grocery(item.product_id, item.name, item.price,
                                  item.quantity_in_stock, item.expiry_date)]
    ELSE IF item.type = "Clothing" THEN
        IF HasFields(item, BaseFields \cup {"size", "material"})
        THEN [raised |-> NoError,
              product |-> Clothing(item.product_id, item.name, item.price,
                                   item.quantity_in_stock, item.size, item.material)]
        ELSE [raised |-> KeyError]
    ELSE [raised |-> [kind |-> "InvalidProductDataError"]]

\* the for loop: each record is built and added to the inventory at once; the
\* first exception leaves the loop and is re-raised as InvalidProductDataError
RECURSIVE load_items(_, _)
load_items(d, data) ==
    IF data = <<>> THEN Outcome(d, NoError, None)
    ELSE LET c == construct(Head(data)) IN
         IF c.raised # NoError THEN Outcome(d, InvalidProductDataError(c.raised), None)
         ELSE LET a == add_product(d, c.product) IN
              IF a.raised # NoError
              THEN Outcome(a.products, InvalidProductDataError(a.raised), None)
              ELSE load_items(a.products, Tail(data))

\* faulty variant: the records replace the inventory instead of joining it
load_from_file_replace(d, f) ==
    IF ~f.exists THEN Outcome(d, InvalidProductDataError(FileError), None)
    ELSE load_items(<<>>, f.data)

load_from_file(d, f) ==
    IF ~f.exists THEN Outcome(d, InvalidProductDataError(FileError), None)
    ELSE load_items(d, f.data)

---------------------------------------------------------------------------
(* Inputs *)

ProductIds == {"P1", "P2"}

Quantities == 0..MaxQty

Amounts == (0 - 1)..MaxAmt

StockRange == (0 - 1)..MaxStock

\* expiry dates as typed by the user
ExpiryInputs == {<<"2", "0", "2", "4", "-", "0", "3", "-", "1", "5">>,
                 <<"0", "9", "9", "9", "-", "1", "2", "-", "3", "1">>}

NewElectronics(id, q) == Electronics(id, <<"T", "v">>, 3, q, 2, "Acme")
NewGrocery(id, q, e) == Grocery(id, <<"t", "e", "a">>, 2, q, e)
NewClothing(id, q) == Clothing(id, <<"V", "e", "s", "t">>, 5, q, "M", "cotton")

\* the names searched for, and the classes searched for
SearchNames == {<<"T", "V">>, <<"E">>, <<"x">>}
SearchTypes == {"Grocery", "Product"}

\* the products the caller constructs and passes to add_product
NewProducts ==
    {NewElectronics(id, q) : id \in ProductIds, q \in Quantities}
    \cup {NewGrocery(id, q, e) : id \in ProductIds, q \in Quantities, e \in ExpiryInputs}
    \cup {NewClothing(id, q) : id \in ProductIds, q \in Quantities}

\* records found in files written outside the program: three well-formed ones
\* (RecE1 and RecC1 share the id P1) and four that load_from_file rejects: an
\* unknown type, a missing field, a date that does not exist, a missing type
RecE1 == product_data(NewElectronics("P1", 1), TRUE)
RecG2 == product_data(NewGrocery("P2", 1, <<"2", "0", "2", "4", "-", "0", "3", "-", "1", "5">>), TRUE)
RecC1 == product_data(NewClothing("P1", 0), TRUE)
RecUnknownType ==
    [type |-> "Unknown", product_id |-> "P2", name |-> <<"T", "v">>, price |-> 3,
     quantity_in_stock |-> 1]
RecNoBrand ==
    [type |-> "Electronics", product_id |-> "P2", name |-> <<"T", "v">>, price |-> 3,
     quantity_in_stock |-> 1, warranty_years |-> 2]
RecBadDate ==
    [type |-> "Grocery", product_id |-> "P2", name |-> <<"t", "e", "a">>, price |-> 2,
     quantity_in_stock |-> 1,
     expiry_date |-> <<"2", "0", "2", "4", "-", "0", "2", "-", "3", "0">>]
RecNoType == [product_id |-> "P2", name |-> <<"T", "v">>]

\* the files written outside the program, by name: a name with no file
\* behind it, and record sets
Disk ==
    [missing |-> NoFile,
     empty |-> FileOf(<<>>),
     e1 |-> FileOf(<<RecE1>>),
     e1_g2 |-> FileOf(<<RecE1, RecG2>>),
     g2_c1 |-> FileOf(<<RecG2, RecC1>>),
     e1_c1 |-> FileOf(<<RecE1, RecC1>>),
     unknown |-> FileOf(<<RecUnknownType>>),
     e1_unknown |-> FileOf(<<RecE1, RecUnknownType>>),
     c1_nobrand |-> FileOf(<<RecC1, RecNoBrand>>),
     e1_baddate |-> FileOf(<<RecE1, RecBadDate>>),
     notype |-> FileOf(<<RecNoType>>)]

\* the name of the file save_to_file writes
SavedName == "inventory"

Entry(p) == [key |-> p.product_id, value |-> p]

\* the inventories that add_product builds from NewProducts
Inventories ==
    {<<>>}
    \cup {<<Entry(p)>> : p \in NewProducts}
    \cup {<<Entry(pq[1]), Entry(pq[2])>> :
            pq \in {x \in NewProducts \X NewProducts : x[1].product_id # x[2].product_id}}

\* the day the program starts on, and the day after: the last expiry date of
\* ExpiryInputs is not passed on the first and is passed on the second
StartDay == [y |-> 2024, m |-> 3, d |-> 15]
LastDay == [y |-> 2024, m |-> 3, d |-> 16]

Call(op, product_id, quantity) ==
    [op |-> op, product_id |-> product_id, quantity |-> quantity]

FileCall(op, filename) == [op |-> op, filename |-> filename]

\* the stock of every product stays within the explored range
InRange(d) == \A i \in 1..Len(d) : d[i].value.quantity_in_stock \in StockRange

---------------------------------------------------------------------------
(* Actions: one call of a method of Inventory each *)

Result(r) ==
    /\ products' = r.products
    /\ raised' = r.raised
    /\ returned' = r.returned

AddProduct ==
    \E p \in NewProducts :
        /\ call' = Call("add_product", p.product_id, 0)
        /\ Result(add_product(products, p))
        /\ UNCHANGED <<file, today>>

RemoveProduct ==
    \E id \in ProductIds :
        /\ call' = Call("remove_product", id, 0)
        /\ Result(remove_product(products, id))
        /\ UNCHANGED <<file, today>>

SellProduct ==
    \E id \in ProductIds, q \in Amounts :
        LET r == sell_product(products, id, q) IN
        /\ InRange(r.products)
        /\ call' = Call("sell_product", id, q)
        /\ Result(r)
        /\ UNCHANGED <<file, today>>

RestockProduct ==
    \E id \in ProductIds, q \in Amounts :
        LET r == restock_product(products, id, q) IN
        /\ InRange(r.products)
        /\ call' = Call("restock_product", id, q)
        /\ Result(r)
        /\ UNCHANGED <<file, today>>

TotalInventoryValue ==
    /\ call' = Call("total_inventory_value", "", 0)
    /\ Result(total_inventory_value(products))
    /\ UNCHANGED <<file, today>>

RemoveExpiredProducts ==
    /\ call' = Call("remove_expired_products", "", 0)
    /\ Result(remove_expired_products(products, today))
    /\ UNCHANGED <<file, today>>

SearchByName ==
    \E name \in SearchNames :
        /\ call' = [op |-> "search_by_name", name |-> name]
        /\ Result(search_by_name(products, name))
        /\ UNCHANGED <<file, today>>

SearchByType ==
    \E product_type \in SearchTypes :
        /\ call' = [op |-> "search_by_type", product_type |-> product_type]
        /\ Result(search_by_type(products, product_type))
        /\ UNCHANGED <<file, today>>

ListAllProducts ==
    /\ call' = Call("list_all_products", "", 0)
    /\ Result(list_all_products(products))
    /\ UNCHANGED <<file, today>>

\* product.get_total_value() on a product of the inventory
GetTotalValue ==
    \E i \in 1..Len(products) :
        /\ call' = Call("get_total_value", products[i].value.product_id, 0)
        /\ returned' = get_total_value(products[i].value)
        /\ raised' = NoError
        /\ UNCHANGED <<products, file, today>>

\* load_from_file(filename) on a file written outside the program
LoadFromFile ==
    \E filename \in DOMAIN Disk :
        /\ call' = FileCall("load_from_file", filename)
        /\ Result(load_from_file(products, Disk[filename]))
        /\ UNCHANGED <<file, today>>

\* save_to_file(filename); the platform decides how strftime writes the year
SaveToFile ==
    \E padYear \in BOOLEAN :
        /\ file' = FileOf(save_to_file(products, padYear))
        /\ call' = FileCall("save_to_file", SavedName)
        /\ raised' = NoError
        /\ returned' = None
        /\ UNCHANGED <<products, today>>

\* load_from_file(filename) on the file save_to_file wrote, into the inventory
\* that was saved
LoadSavedFile ==
    /\ call' = FileCall("load_from_file", SavedName)
    /\ Result(load_from_file(products, file))
    /\ UNCHANGED <<file, today>>

\* inventory = Inventory(); inventory.load_from_file(filename): the saved file
\* is loaded into a new, empty inventory, which takes the place of the old one
LoadIntoNewInventory ==
    /\ call' = FileCall("Inventory.load_from_file", SavedName)
    /\ Result(load_from_file(<<>>, file))
    /\ UNCHANGED <<file, today>>

\* midnight passes
Tick ==
    /\ DateGT(LastDay, today)
    /\ today' = [today EXCEPT !.d = today.d + 1]
    /\ UNCHANGED <<products, file, call, raised, returned>>

---------------------------------------------------------------------------
(* Specifications *)

Init ==
    /\ products = <<>>
    /\ file = NoFile
    /\ today = StartDay
    /\ call = Call("Inventory", "", 0)
    /\ raised = NoError
    /\ returned = None

Next ==
    \/ AddProduct
    \/ RemoveProduct
    \/ SellProduct
    \/ RestockProduct
    \/ TotalInventoryValue
    \/ RemoveExpiredProducts
    \/ LoadFromFile
    \/ Tick

Spec == Init /\ [][Next]_vars

InitPersist ==
    /\ products \in Inventories
    /\ file = NoFile
    /\ today = StartDay
    /\ call = Call("Inventory", "", 0)
    /\ raised = NoError
    /\ returned = None

\* the inventory is changed by sales and restocks before it is saved; it is
\* queried at any time
NextPersist ==
    \/ (~file.exists /\ SellProduct)
    \/ (~file.exists /\ RestockProduct)
    \/ SearchByName
    \/ SearchByType
    \/ ListAllProducts
    \/ TotalInventoryValue
    \/ GetTotalValue
    \/ SaveToFile
    \/ LoadSavedFile
    \/ LoadIntoNewInventory

SpecPersist == InitPersist /\ [][NextPersist]_vars

---------------------------------------------------------------------------
(* Properties *)

\* the step is a call of method op (and not the clock advancing)
Called(op) == today' = today /\ call'.op = op

Stock(d, id) == Get(d, id).quantity_in_stock

StockNonNegative(d) == \A i \in 1..Len(d) : d[i].value.quantity_in_stock >= 0

\* C1: whenever load_from_file fails with InvalidProductData, the inventory
\* holds exactly the products it held before the call.
C1_LoadAllOrNothing ==
    [][(Called("load_from_file") /\ raised'.kind = "InvalidProductDataError")
          => products' = products]_vars

\* C2: no product in the collection ever has negative stock.
C2_StockNeverNegative == StockNonNegative(products)

\* C2, amended: every call other than restock_product with a negative amount
\* leaves all stock non-negative if it was non-negative before the call.
C2_NonNegativePreserved ==
    [][(StockNonNegative(products)
          /\ ~(Called("restock_product") /\ call'.quantity < 0))
          => StockNonNegative(products')]_vars

\* a sale refused for lack of stock, in an inventory whose stock is non-negative
C2_Witness ==
    /\ call.op = "sell_product"
    /\ raised.kind = "InsufficientStockError"
    /\ raised.available = 0
    /\ StockNonNegative(products)

\* C3: add_product with an id already present fails with DuplicateProductId and
\* leaves the collection unchanged; with an absent id it inserts the product.
C3_Uniqueness ==
    [][Called("add_product") =>
          LET id == call'.product_id IN
          IF HasKey(products, id)
          THEN raised' = DuplicateProductIDError /\ products' = products
          ELSE /\ raised' = NoError
               /\ Len(products') = Len(products) + 1
               /\ SubSeq(products', 1, Len(products)) = products
               /\ products'[Len(products')].key = id
               /\ products'[Len(products')].value.product_id = id]_vars

\* a second add_product with a used id was refused
C3_Witness ==
    /\ call.op = "add_product"
    /\ raised = DuplicateProductIDError
    /\ HasKey(products, call.product_id)

\* C4: sell(q) on stock s yields s - q when q <= s (q = s leaves 0), and fails
\* with InsufficientStock(id, q, s), stock unchanged, when q > s.
C4_StockConservation ==
    [][(Called("sell_product") /\ HasKey(products, call'.product_id)) =>
          LET id == call'.product_id
              q == call'.quantity
              s == Stock(products, id)
          IN  IF q <= s
              THEN raised' = NoError /\ Stock(products', id) = s - q
              ELSE /\ raised' = InsufficientStockError(id, q, s)
                   /\ Stock(products', id) = s]_vars

\* a Grocery sold out exactly: q = s > 0 succeeded and left stock 0
C4_Witness ==
    /\ call.op = "sell_product"
    /\ raised = NoError
    /\ call.quantity > 0
    /\ HasKey(products, call.product_id)
    /\ Get(products, call.product_id).type = "Grocery"
    /\ Stock(products, call.product_id) = 0

\* C5: saving a collection and loading the saved file into an empty inventory
\* succeeds and yields the same products, field by field, in the same order.
C5_RoundTrip ==
    [][(call.op = "save_to_file" /\ call'.op = "Inventory.load_from_file")
          => (raised' = NoError /\ products' = products)]_vars

\* the day number of a date within its era, for comparing dates
DayNumber(date) == date.y * 372 + date.m * 31 + date.d

\* the Grocery products whose expiry date is strictly before the date now
ExpiredBefore(entry, now) ==
    /\ entry.value.type = "Grocery"
    /\ DayNumber(entry.value.expiry_date) < DayNumber(now)

\* C6: remove_expired_products removes exactly the Grocery products whose
\* expiry date is strictly before the current date (one expiring today is
\* kept), leaves all other products unchanged, and returns the removed ids.
C6_ExpiryPruning ==
    [][Called("remove_expired_products") =>
          LET Kept(entry) == ~ExpiredBefore(entry, today)
              Gone(entry) == ExpiredBefore(entry, today)
              gone == SelectSeq(products, Gone)
          IN  /\ raised' = NoError
              /\ products' = SelectSeq(products, Kept)
              /\ returned' = [i \in 1..Len(gone) |-> gone[i].key]]_vars

\* a pruning that removed a product and kept a Grocery expiring today
C6_Witness ==
    /\ call.op = "remove_expired_products"
    /\ Len(returned) > 0
    /\ \E i \in 1..Len(products) :
          /\ products[i].value.type = "Grocery"
          /\ products[i].value.expiry_date = today

\* the ids of the records of data that carry one
RecordIds(data) ==
    {data[i].product_id : i \in {j \in 1..Len(data) : "product_id" \in DOMAIN data[j]}}

\* two records of data share an id, or a record has an id of the inventory d
HasDuplicateId(d, data) ==
    \/ \E i, j \in 1..Len(data) :
          /\ i # j
          /\ "product_id" \in DOMAIN data[i]
          /\ "product_id" \in DOMAIN data[j]
          /\ data[i].product_id = data[j].product_id
    \/ RecordIds(data) \cap Keys(d) # {}

\* C7: every failure of load_from_file reaches the caller as
\* InvalidProductData, never as DuplicateProductId; a record set with two
\* records of one id, or with an id already in the inventory, makes it fail.
C7_LoadErrorCollapsing ==
    [][Called("load_from_file") =>
          LET f == Disk[call'.filename] IN
          /\ raised'.kind \in {"none", "InvalidProductDataError"}
          /\ ~f.exists => raised'.kind = "InvalidProductDataError"
          /\ (f.exists /\ HasDuplicateId(products, f.data))
                => raised'.kind = "InvalidProductDataError"]_vars

\* a load that hit a duplicate id and reported InvalidProductData
C7_Witness ==
    /\ call.op = "load_from_file"
    /\ raised.kind = "InvalidProductDataError"
    /\ raised.cause = "DuplicateProductIDError"

\* C8: restock(a) on stock s succeeds for every integer a, negative ones
\* included, and yields stock s + a.
C8_RestockAdditivity ==
    [][(Called("restock_product") /\ HasKey(products, call'.product_id)) =>
          /\ raised' = NoError
          /\ Stock(products', call'.product_id)
                = Stock(products, call'.product_id) + call'.quantity]_vars

\* a restock with a negative amount that took the stock below zero
C8_Witness ==
    /\ call.op = "restock_product"
    /\ call.quantity < 0
    /\ raised = NoError
    /\ HasKey(products, call.product_id)
    /\ Stock(products, call.product_id) < 0

\* C9: remove_product, sell_product and restock_product with an absent id fail
\* with the not-found error and leave the collection unchanged;
\* remove_product with a present id deletes that entry and no other.
C9_NotFound ==
    [][(Called("remove_product") \/ Called("sell_product") \/ Called("restock_product")) =>
          LET id == call'.product_id
              Other(entry) == entry.key # id
          IN  IF ~HasKey(products, id)
              THEN raised' = NotFoundError(id) /\ products' = products
              ELSE /\ raised'.kind # "ValueError"
                   /\ call'.op = "remove_product" =>
                         (raised' = NoError /\ products' = SelectSeq(products, Other))]_vars

\* a call with an absent id was refused while the inventory held a product
C9_Witness ==
    /\ call.op \in {"remove_product", "sell_product", "restock_product"}
    /\ raised = NotFoundError(call.product_id)
    /\ ~HasKey(products, call.product_id)
    /\ Len(products) > 0

\* the sum of price x quantity_in_stock over the products stored under keys
RECURSIVE ValueOfKeys(_, _)
ValueOfKeys(d, keys) ==
    IF keys = {} THEN 0
    ELSE LET k == CHOOSE x \in keys : TRUE
         IN  Get(d, k).price * Get(d, k).quantity_in_stock + ValueOfKeys(d, keys \ {k})

\* C10: total_inventory_value returns the sum of price x quantity_in_stock over
\* the products in the collection, 0 for an empty collection.
C10_Valuation ==
    call.op = "total_inventory_value" =>
        /\ raised = NoError
        /\ returned = ValueOfKeys(products, Keys(products))
        /\ products = <<>> => returned = 0

\* a valuation of two products after a sale
C10_Witness ==
    /\ call.op = "total_inventory_value"
    /\ Len(products) = 2
    /\ returned > 0
    /\ \E i \in 1..2 : products[i].value.quantity_in_stock = 0

\* the fields of a variant, beside the discriminator
VariantFields(type) ==
    {"product_id", "name", "price", "quantity_in_stock"} \cup
    (CASE type = "Electronics" -> {"warranty_years", "brand"}
       [] type = "Grocery" -> {"expiry_date"}
       [] type = "Clothing" -> {"size", "material"})

\* the text str is year-month-day of date, in decimal digits
DenotesDate(str, date) ==
    LET parts == Split(str, "-") IN
    /\ Len(parts) = 3
    /\ \A i \in 1..3 : AllDigits(parts[i]) /\ parts[i] # <<>>
    /\ NumVal(parts[1]) = date.y
    /\ NumVal(parts[2]) = date.m
    /\ NumVal(parts[3]) = date.d

\* rec is the record of product p: its discriminator, exactly its variant's
\* fields, each with the value p has
RecordOf(rec, p) ==
    /\ DOMAIN rec = VariantFields(p.type) \cup {"type"}
    /\ rec.type = p.type
    /\ \A f \in VariantFields(p.type) \ {"expiry_date"} : rec[f] = p[f]
    /\ p.type = "Grocery" => DenotesDate(rec.expiry_date, p.expiry_date)

\* C11: save_to_file writes one record per product of the collection, in the
\* order of the collection, each with the discriminator of the product's
\* variant and exactly that variant's fields at their current values.
C11_SaveRecords ==
    [][call'.op = "save_to_file" =>
          /\ file'.exists
          /\ Len(file'.data) = Len(products)
          /\ \A i \in 1..Len(products) : RecordOf(file'.data[i], products[i].value)]_vars

\* a save of two products, one of them with a stock that only a sale or a
\* restock before the save can have produced
C11_Witness ==
    /\ call.op = "save_to_file"
    /\ Len(products) = 2
    /\ Len(file.data) = 2
    /\ \E i \in 1..2 :
          /\ file.data[i].quantity_in_stock < 0
          /\ file.data[i].type = "Grocery"

\* a and b are the same character, or the two cases of one letter
SameLetter(a, b) ==
    \/ a = b
    \/ \E i \in 1..26 : {a, b} = {UpperChars[i], LowerChars[i]}

\* sub occurs in s when the case of letters is ignored
OccursIgnoringCase(sub, s) ==
    \E off \in 0..(Len(s) - Len(sub)) :
        \A j \in 1..Len(sub) : SameLetter(sub[j], s[off + j])

\* C12: search_by_name returns exactly the products whose name contains the
\* substring, case ignored on both sides, in collection order (an empty
\* sequence when none does), and leaves the collection unchanged.
C12_SearchByName ==
    [][call'.op = "search_by_name" =>
          LET Match(p) == OccursIgnoringCase(call'.name, p.name) IN
          /\ raised' = NoError
          /\ returned' = SelectSeq(Values(products), Match)
          /\ products' = products]_vars

\* the search for "TV" found the product named "Tv" and passed over another
C12_Witness ==
    /\ call.op = "search_by_name"
    /\ call.name = <<"T", "V">>
    /\ Len(products) = 2
    /\ Len(returned) = 1
    /\ returned[1].name = <<"T", "v">>
    /\ returned[1] = products[2].value

\* C13: a sell that does not fail leaves the product's stock not greater than
\* it was, whatever the quantity.
C13_SellNeverRaisesStock ==
    [][(Called("sell_product") /\ raised' = NoError
          /\ HasKey(products, call'.product_id))
          => Stock(products', call'.product_id) <= Stock(products, call'.product_id)]_vars

\* e and f are the same entry but for the stock of the product
SameButStock(e, f) ==
    /\ e.key = f.key
    /\ [e.value EXCEPT !.quantity_in_stock = 0] = [f.value EXCEPT !.quantity_in_stock = 0]

\* C14: sell_product and restock_product, failing or not, change nothing but
\* the stock of the product stored under the id: the ids, their order, the
\* other fields of that product and every other product stay as they were.
C14_StockMutationFrame ==
    [][(Called("sell_product") \/ Called("restock_product")) =>
          /\ Len(products') = Len(products)
          /\ \A i \in 1..Len(products) :
                IF products[i].key = call'.product_id
                THEN SameButStock(products'[i], products[i])
                ELSE products'[i] = products[i]]_vars

\* a restock of the first of two products that changed its stock
C14_Witness ==
    /\ call.op = "restock_product"
    /\ call.quantity # 0
    /\ raised = NoError
    /\ Len(products) = 2
    /\ products[1].key = call.product_id

ReadOnlyOps ==
    {"list_all_products", "search_by_name", "search_by_type",
     "total_inventory_value", "get_total_value", "save_to_file"}

\* C15: list_all_products, search_by_name, search_by_type,
\* total_inventory_value, get_total_value and save_to_file leave the
\* collection, its order and every field of every product as they were.
C15_QueriesReadOnly ==
    [][call'.op \in ReadOnlyOps => products' = products]_vars

\* a listing of two products that left them in the collection
C15_Witness ==
    /\ call.op = "list_all_products"
    /\ Len(returned) = 2
    /\ returned = Values(products)

\* C16: every key of the dict refers to a product whose own id is that key,
\* and no two entries share a key.
C16_KeyIdConsistency ==
    /\ \A i \in 1..Len(products) : products[i].key = products[i].value.product_id
    /\ \A i, j \in 1..Len(products) :
          products[i].value.product_id = products[j].value.product_id => i = j
    /\ Cardinality(Keys(products)) = Len(products)

\* two products in the collection after a load that added to it
C16_Witness ==
    /\ call.op = "load_from_file"
    /\ raised = NoError
    /\ Len(products) = 2

\* C17: a load that succeeds keeps every product the inventory held, unchanged
\* and in place, and adds the records: the ids afterwards are the disjoint
\* union of the ids before and the record ids. Loading the file that
\* save_to_file writes for a non-empty inventory into that inventory fails.
C17_LoadMerges ==
    [][Called("load_from_file") =>
          LET f == Disk[call'.filename] IN
          /\ raised' = NoError =>
                /\ f.exists
                /\ Len(products') = Len(products) + Len(f.data)
                /\ SubSeq(products', 1, Len(products)) = products
                /\ Keys(products) \cap RecordIds(f.data) = {}
                /\ Keys(products') = Keys(products) \cup RecordIds(f.data)
          /\ (/\ f.exists
              /\ products # <<>>
              /\ \E padYear \in BOOLEAN : f.data = save_to_file(products, padYear))
                => raised'.kind = "InvalidProductDataError"]_vars

\* the file e1 was loaded into an inventory that held another product
C17_Witness ==
    /\ call.op = "load_from_file"
    /\ call.filename = "e1"
    /\ raised = NoError
    /\ Len(products) = 2
    /\ products[2].key = "P1"

\* C18: the ids remove_expired_products returns are distinct, were in the
\* collection and are no longer in it; the call raises nothing; a second call
\* on the same date returns no id and changes nothing.
C18_PruneIdempotent ==
    [][Called("remove_expired_products") =>
          LET again == remove_expired_products(products', today) IN
          /\ raised' = NoError
          /\ \A i, j \in 1..Len(returned') : returned'[i] = returned'[j] => i = j
          /\ \A i \in 1..Len(returned') :
                returned'[i] \in Keys(products) \ Keys(products')
          /\ again.raised = NoError
          /\ again.returned = <<>>
          /\ again.products = products'
          /\ (call.op = "remove_expired_products" /\ today = StartDay)
                => (returned' = <<>> /\ products' = products)]_vars

\* a pruning that removed both products of the collection
C18_Witness ==
    /\ call.op = "remove_expired_products"
    /\ Len(returned) = 2
    /\ products = <<>>

====
